---- MODULE Spec2Model ----
(***************************************************************************)
(* A model of mkv-combine: the mkvmerge wrapper classes of mkv.py (MKV,    *)
(* MKVTrack, MKVFile) and the matching pipeline of main.py.                *)
(*                                                                         *)
(* A file name is a sequence of dot-separated components, so that          *)
(* <<"S01E01", "mp4">> stands for "S01E01.mp4"; a path is a sequence of    *)
(* names, from the input root down.  Python's None is NoneVal where the    *)
(* value is a string, and the empty sequence where it is structured (the   *)
(* value x is then <<x>>).  An operator that models a Python call returns  *)
(* a record whose field exc names the exception raised (NoneVal when the   *)
(* call returns) and whose field evs lists the probes (calls of info_json) *)
(* the call made, in order.                                                *)
(***************************************************************************)
EXTENDS Integers, Sequences, FiniteSets, TLC

VARIABLES
    disk,       \* the files that exist: path -> what `mkvmerge -J` answers
    built,      \* the outcome of MKVFile(target), <<>> before the call
    target,     \* the path MKVFile is called on
    cmd,        \* SpecCmd: the outcome of the last MKVFile.command call, <<>> before
    nedits,     \* SpecCmd: the number of calls made on the model so far
    objs,       \* SpecProbe: the probe cache of every live MKV object, by object number
    nobj,       \* SpecProbe: the number of MKV objects created so far
    log,        \* SpecProbe: every info_json call made so far, in order
    dirs,       \* Spec: the directories that exist
    dry_run,    \* Spec: args.dry_run
    pc,         \* Spec: where main stands
    subs_paths, \* Spec: main's list of Subs directories
    di,         \* Spec: the index in subs_paths of the directory in hand
    gen,        \* Spec: the generator match_subs_to_file(subs_paths[di]), <<>> before its first next()
    pair,       \* Spec: the (video, subs) pair in hand, <<>> when none
    raised,     \* Spec: the exception that ended main, NoneVal when none
    matched,    \* Spec: every video search match_subs_to_file made or gave up, in order
    muxes,      \* Spec: every pair main merged, with the exit code of mkvmerge
    trashed,    \* Spec: every path given to send2trash, in order
    heap,       \* SpecMerge: every MKVTrack object, by reference
    models,     \* SpecMerge: every MKVFile object, its tracks being references
    calls       \* SpecMerge: the constructor and add_file calls made so far, in order

NoneVal == "None"

\* ------------------------------------------------------------------ bounds
MaxTracks == 2

\* ------------------------------------------------- what mkvmerge -J reports
PropNames == {"track_name", "language", "default_track", "forced_track"}

TrackTypes == {"video", "audio", "subtitles"}

CodecOf(type) ==
    CASE type = "video" -> "AVC/H.264/MPEG-4p10"
      [] type = "audio" -> "AAC"
      [] OTHER -> "SubRip/SRT"

\* The codes iso639.languages.get(part2b=...) knows, as far as the model uses them.
ISO639_2 == {"eng", "dut", "fre", "und"}

\* One "properties" object: only the keys the probe reports are in its domain.
MkProps(has, name, lang, dflt, forced) ==
    LET full == [track_name |-> name, language |-> lang,
                 default_track |-> dflt, forced_track |-> forced]
    IN  [k \in {p \in PropNames : has[p]} |-> full[k]]

PropsSet ==
    { MkProps(has, "Main", lang, TRUE, TRUE) :
        has \in [PropNames -> BOOLEAN], lang \in {"fre"} }

\* The entry of one track of the "tracks" array; mkvmerge numbers them 0, 1, ...
ProbeEntry(id, type, props) ==
    [id |-> id, type |-> type, codec |-> CodecOf(type), properties |-> props]

\* The answers of `mkvmerge -J`: a JSON document (kind "json"), a non-zero
\* exit (kind "exit": subprocess.CalledProcessError) or output that is no
\* JSON (kind "garbage": json.JSONDecodeError).
Json(supported, tracks) ==
    [kind |-> "json", supported |-> supported, tracks |-> tracks]

NoJson(kind) == [kind |-> kind, supported |-> FALSE, tracks |-> <<>>]

\* ------------------------------------------------------------ class MKV
\* A fresh instance, before the setters of __init__ run.
MKV_new ==
    [info_json_hash |-> <<>>, info_json |-> <<>>, file_path |-> <<>>]

Raise(exc, self, evs) == [exc |-> exc, self |-> self, val |-> <<>>, evs |-> evs]

Return(self, val, evs) == [exc |-> NoneVal, self |-> self, val |-> val, evs |-> evs]

\* One call of info_json: the path probed, whether mkvmerge -J was run, the
\* exception raised and the value returned; obj tells the objects of one
\* constructor call apart (0 the object itself, i its i-th track).
Event(path, invoked, exc, val) ==
    [obj |-> 0, path |-> path, invoked |-> invoked, exc |-> exc, val |-> val]

Tagged(r, k) == [r EXCEPT !.evs = [j \in 1..Len(@) |-> [@[j] EXCEPT !.obj = k]]]

\* (a slip: the cached result is returned whatever path it was saved for)
info_json_AnyPath(self, file_path, d) ==
    LET _file_path == IF file_path # <<>> THEN file_path[1] ELSE self.file_path[1]
    IN  IF self.info_json # <<>>
        THEN Return(self, self.info_json[1],
                    <<Event(_file_path, FALSE, NoneVal, self.info_json)>>)
        ELSE IF _file_path \notin DOMAIN d \/ d[_file_path].kind # "json"
        THEN Raise("ValueError", self, <<Event(_file_path, TRUE, "ValueError", <<>>)>>)
        ELSE Return([self EXCEPT !.info_json_hash = <<_file_path>>,
                                 !.info_json = <<d[_file_path]>>],
                    d[_file_path], <<Event(_file_path, TRUE, NoneVal, <<d[_file_path]>>)>>)

\* MKV.info_json(file_path): file_path is <<>> for the default argument None.
info_json(self, file_path, d) ==
    LET _file_path == IF file_path # <<>> THEN file_path[1] ELSE self.file_path[1]
    IN  IF self.info_json # <<>> /\ <<_file_path>> = self.info_json_hash
        THEN Return(self, self.info_json[1],
                    <<Event(_file_path, FALSE, NoneVal, self.info_json)>>)
        ELSE IF _file_path \notin DOMAIN d
        THEN Raise("FileNotFoundError", self,
                   <<Event(_file_path, FALSE, "FileNotFoundError", <<>>)>>)
        ELSE IF d[_file_path].kind = "exit"
        THEN Raise("ValueError", self,
                   <<Event(_file_path, TRUE, "ValueError", <<>>)>>)
        ELSE IF d[_file_path].kind = "garbage"
        THEN Raise("JSONDecodeError", self,
                   <<Event(_file_path, TRUE, "JSONDecodeError", <<>>)>>)
        ELSE LET js == d[_file_path]
             IN  Return([self EXCEPT !.info_json_hash = <<_file_path>>,
                                     !.info_json = <<js>>],
                        js, <<Event(_file_path, TRUE, NoneVal, <<js>>)>>)

\* A call made after the probes evs0: its own probes follow them.
After(evs0, r) == [r EXCEPT !.evs = evs0 \o r.evs]

\* MKV.verify_supported(file_path), r being what info_json answered
verify_supported_then(r) ==
    IF r.exc # NoneVal THEN r
    ELSE IF ~r.val.supported
    THEN Raise("FileNotSupportedError", r.self, r.evs)
    ELSE Return(r.self, <<>>, r.evs)

verify_supported(self, file_path, d) ==
    verify_supported_then(info_json(self, file_path, d))

\* MKV.__init__(file_path): the file_path setter verifies, then assigns.
MKV_init_then(r, file_path) ==
    IF r.exc # NoneVal THEN r
    ELSE Return([r.self EXCEPT !.file_path = <<file_path>>], <<>>, r.evs)

MKV_init(file_path, d) ==
    MKV_init_then(verify_supported(MKV_new, <<file_path>>, d), file_path)

\* ------------------------------------------------------- class MKVTrack
is_ISO639_2(language) == language \in ISO639_2

\* The language setter: the value is stored when it is None or a known code.
set_language(self, language) ==
    IF language = NoneVal \/ is_ISO639_2(language)
    THEN Return([self EXCEPT !.language = language], <<>>, <<>>)
    ELSE Raise("ValueError", self, <<>>)

\* The track_id setter: codec and type are read at the INDEX track_id.
set_track_id_then(r, track_id) ==
    IF r.exc # NoneVal THEN r
    ELSE IF ~(0 <= track_id /\ track_id < Len(r.val.tracks))
    THEN Raise("IndexError", r.self, r.evs)
    ELSE Return([r.self EXCEPT !.track_id = track_id,
                               !.track_codec = r.val.tracks[track_id + 1].codec,
                               !.track_type = r.val.tracks[track_id + 1].type],
                <<>>, r.evs)

set_track_id(self, track_id, d) ==
    set_track_id_then(info_json(self, <<>>, d), track_id)

\* MKVTrack.track_from_track_id: the first entry whose "id" is track_id,
\* <<entry>>, or <<>> for None.
track_from_track_id_then(r, track_id) ==
    IF r.exc # NoneVal THEN r
    ELSE LET hits == {i \in 1..Len(r.val.tracks) : r.val.tracks[i].id = track_id}
         IN  IF hits = {} THEN Return(r.self, <<>>, r.evs)
             ELSE Return(r.self,
                         <<r.val.tracks[CHOOSE i \in hits : \A j \in hits : i <= j]>>,
                         r.evs)

track_from_track_id(self, d) ==
    track_from_track_id_then(info_json(self, <<>>, d), self.track_id)

\* MKVTrack.set_defaults_from_info_json: the four properties, in the code's order.
set_default_flags(l, props, evs) ==
    IF l.exc # NoneVal THEN Raise(l.exc, l.self, evs)
    ELSE Return([l.self EXCEPT
                    !.default_track = IF "default_track" \in DOMAIN props
                                      THEN props.default_track ELSE @,
                    !.forced_track = IF "forced_track" \in DOMAIN props
                                     THEN props.forced_track ELSE @],
                <<>>, evs)

set_default_language(s1, props, evs) ==
    set_default_flags(IF "language" \in DOMAIN props
                      THEN set_language(s1, props.language)
                      ELSE Return(s1, <<>>, <<>>),
                      props, evs)

set_defaults_then(r) ==
    IF r.exc # NoneVal THEN r
    ELSE IF r.val = <<>> THEN Raise("IndexError", r.self, r.evs)
    ELSE set_default_language(
             [r.self EXCEPT !.track_name =
                 IF "track_name" \in DOMAIN r.val[1].properties
                 THEN r.val[1].properties.track_name ELSE @],
             r.val[1].properties, r.evs)

set_defaults_from_info_json(self, d) ==
    set_defaults_then(track_from_track_id(self, d))

\* The fields of an MKVTrack; an attribute not assigned yet reads NoneVal/FALSE.
MKVTrack_new(mkv) ==
    [info_json_hash |-> mkv.info_json_hash, info_json |-> mkv.info_json,
     file_path |-> mkv.file_path,
     track_id |-> -1, track_codec |-> NoneVal, track_type |-> NoneVal,
     track_name |-> NoneVal, language |-> NoneVal, tags |-> <<>>,
     default_track |-> FALSE, forced_track |-> FALSE,
     no_chapters |-> FALSE, no_global_tags |-> FALSE,
     no_track_tags |-> FALSE, no_attachments |-> FALSE]

\* The "overwrite tracks" block of MKVTrack.__init__, with the exclusions after it.
OverwriteTracks_then(l, default_track, forced_track) ==
    IF l.exc # NoneVal THEN l
    ELSE Return([l.self EXCEPT !.default_track = default_track,
                               !.forced_track = forced_track,
                               !.no_chapters = FALSE, !.no_global_tags = FALSE,
                               !.no_track_tags = FALSE, !.no_attachments = FALSE],
                <<>>, <<>>)

OverwriteTracks(self, track_name, language, default_track, forced_track) ==
    OverwriteTracks_then(set_language([self EXCEPT !.track_name = track_name], language),
                         default_track, forced_track)

\* MKVTrack.__init__(file_path, track_id=..., track_name=None, language=None,
\*                   default_track=False, forced_track=False); o carries the
\* four overrides.
MKVTrack_init3(r2, o) ==
    IF r2.exc # NoneVal THEN r2
    ELSE After(r2.evs, OverwriteTracks(r2.self, o.track_name, o.language,
                                       o.default_track, o.forced_track))

MKVTrack_init2(r1, o, d) ==
    IF r1.exc # NoneVal THEN r1
    ELSE MKVTrack_init3(After(r1.evs, set_defaults_from_info_json(r1.self, d)), o)

MKVTrack_init1(r0, track_id, o, d) ==
    IF r0.exc # NoneVal THEN r0
    ELSE MKVTrack_init2(After(r0.evs, set_track_id(MKVTrack_new(r0.self), track_id, d)),
                        o, d)

MKVTrack_init(file_path, track_id, o, d) ==
    MKVTrack_init1(MKV_init(file_path, d), track_id, o, d)

\* The defaults of the keyword arguments of MKVTrack.__init__
NoOverrides ==
    [track_name |-> NoneVal, language |-> NoneVal,
     default_track |-> FALSE, forced_track |-> FALSE]

\* -------------------------------------------------------- class MKVFile
\* The loop of MKVFile.__init__ over info_json["tracks"], from entry i on:
\* MKVTrack(self.file_path, track_id=track["id"]) appended for each entry.
\* acc is the call so far: acc.self the MKVFile, acc.evs its probes.
RECURSIVE BuildTracks(_, _, _, _)
BuildTracks_then(acc, t, entries, i, d) ==
    IF t.exc # NoneVal THEN Raise(t.exc, acc.self, t.evs)
    ELSE BuildTracks(Return([acc.self EXCEPT !.tracks = Append(@, t.self)], <<>>, t.evs),
                     entries, i + 1, d)

\* The loop of MKVFile.__init__ with MKVTrack's default track_id=0
BuildTracks_DefaultId(acc, entries, i, d) ==
    IF i > Len(entries) THEN acc
    ELSE BuildTracks_then(acc,
             After(acc.evs, Tagged(MKVTrack_init(acc.self.file_path[1], 0,
                                                 NoOverrides, d), i)),
             entries, i, d)

BuildTracks(acc, entries, i, d) ==
    IF i > Len(entries) THEN acc
    ELSE BuildTracks_then(acc,
             After(acc.evs, Tagged(MKVTrack_init(acc.self.file_path[1], entries[i].id,
                                                 NoOverrides, d), i)),
             entries, i, d)

\* MKVFile.__init__(file_path, title=title): on return, self is the MKVFile.
MKVFile_init2(r1, title, d) ==
    BuildTracks(Return([info_json_hash |-> r1.self.info_json_hash,
                        info_json |-> r1.self.info_json,
                        file_path |-> r1.self.file_path,
                        title |-> title, tracks |-> <<>>], <<>>, r1.evs),
                r1.val.tracks, 1, d)

MKVFile_init1(r0, title, d) ==
    IF r0.exc # NoneVal THEN r0
    ELSE MKVFile_init2(After(r0.evs, info_json(r0.self, <<>>, d)), title, d)

MKVFile_init(file_path, title, d) ==
    MKVFile_init1(MKV_init(file_path, d), title, d)

\* MKVFile.contains_video() / MKVFile.contains_subtitles()
contains_video(self) ==
    \E i \in 1..Len(self.tracks) : self.tracks[i].track_type = "video"

contains_subtitles(self) ==
    \E i \in 1..Len(self.tracks) : self.tracks[i].track_type = "subtitles"

\* str(path): the names joined by "/", the components of a name by ".".
RECURSIVE Join(_, _)
Join(strs, sep) ==
    IF Len(strs) = 0 THEN ""
    ELSE IF Len(strs) = 1 THEN strs[1]
    ELSE strs[1] \o sep \o Join(Tail(strs), sep)

PathStr(path) == "/" \o Join([i \in 1..Len(path) |-> Join(path[i], ".")], "/")

\* Path.suffix: the last component of the file name, with its dot.
Suffix(path) ==
    IF Len(path[Len(path)]) > 1
    THEN "." \o path[Len(path)][Len(path[Len(path)])]
    ELSE ""

\* default_mkv_path, as command renders it
MkvmergePath == "/resources/mkvmerge.exe"

\* command.extend(items) under `if cond:`, and under if/else
Extend(command, cond, items) == IF cond THEN command \o items ELSE command

\* (a slip: the else branch left out, so that a false flag emits nothing)
ExtendEither_NoElse(command, cond, items, others) ==
    IF cond THEN command \o items ELSE command

ExtendEither(command, cond, items, others) ==
    IF cond THEN command \o items ELSE command \o others

TagsStr(track) == IF track.tags = <<>> THEN "" ELSE PathStr(track.tags[1])

\* One pass of the loop of MKVFile.command over self.tracks
CommandTrack(command, track) ==
    LET id == ToString(track.track_id)
        c1 == Extend(command, track.track_name # NoneVal,
                     <<"--track-name", id \o ":" \o track.track_name>>)
        c2 == Extend(c1, track.language # NoneVal,
                     <<"--language", id \o ":" \o track.language>>)
        c3 == Extend(c2, track.tags # <<>>, <<"--tags", id \o ":" \o TagsStr(track)>>)
        c4 == ExtendEither(c3, track.default_track,
                           <<"--default-track", id \o ":1">>,
                           <<"--default-track", id \o ":0">>)
        c5 == ExtendEither(c4, track.forced_track,
                           <<"--forced-track", id \o ":1">>,
                           <<"--forced-track", id \o ":0">>)
        c6 == ExtendEither(c5, track.track_type # "video", <<"-D">>, <<"-d", id>>)
        c7 == ExtendEither(c6, track.track_type # "audio", <<"-A">>, <<"-a", id>>)
        c8 == ExtendEither(c7, track.track_type # "subtitles", <<"-S">>, <<"-s", id>>)
        c9 == Extend(c8, track.no_chapters, <<"--no-chapters">>)
        c10 == Extend(c9, track.no_global_tags, <<"--no-global-tags">>)
        c11 == Extend(c10, track.no_track_tags, <<"--no-track-tags">>)
        c12 == Extend(c11, track.no_attachments, <<"--no-attachments">>)
    IN  Append(c12, PathStr(track.file_path[1]))

RECURSIVE CommandLoop(_, _, _)
CommandLoop(command, tracks, i) ==
    IF i > Len(tracks) THEN command
    ELSE CommandLoop(CommandTrack(command, tracks[i]), tracks, i + 1)

\* MKVFile.command(output_path): val is the argument list.
command(self, output_path) ==
    IF Suffix(output_path) # ".mkv" THEN Raise("ValueError", self, <<>>)
    ELSE Return(self,
                CommandLoop(Extend(<<MkvmergePath, "-o", PathStr(output_path)>>,
                                   self.title # NoneVal, <<"--title", self.title>>),
                            self.tracks, 1),
                <<>>)

\* MKVFile.add_track(track): track a path (r is MKVTrack(track)) or an MKVTrack
add_track_then(self, r) ==
    IF r.exc # NoneVal THEN Raise(r.exc, self, r.evs)
    ELSE Return([self EXCEPT !.tracks = Append(@, r.self)], <<>>, r.evs)

add_track(self, track, d) ==
    add_track_then(self, MKVTrack_init(track, 0, NoOverrides, d))

\* add_file with the tracks of the file put before the model's own
add_file_Prepend(self, file) ==
    Return([self EXCEPT !.tracks = file.tracks \o @], <<>>, <<>>)

\* MKVFile.add_file(file): file an MKVFile
add_file(self, file) ==
    Return([self EXCEPT !.tracks = @ \o file.tracks], <<>>, <<>>)

\* MKVFile.add_file(file): file a path, r being MKVFile(file)
add_file_then(self, r) ==
    IF r.exc # NoneVal THEN Raise(r.exc, self, r.evs)
    ELSE After(r.evs, add_file(self, r.self))

add_file_path(self, file, d) ==
    add_file_then(self, MKVFile_init(file, NoneVal, d))

\* The tags setter of MKVTrack
set_tags(self, path, d) ==
    IF path \notin DOMAIN d THEN Raise("FileNotFoundError", self, <<>>)
    ELSE Return([self EXCEPT !.tags = <<path>>], <<>>, <<>>)

\* MKVFile.ignore_chapters / ignore_global_tags / ignore_track_tags /
\* ignore_attachments: the flag named by attr, set on every track.
ignore(self, attr, flag) ==
    Return([self EXCEPT !.tracks =
               [i \in 1..Len(@) |->
                   CASE attr = "no_chapters" -> [@[i] EXCEPT !.no_chapters = flag]
                     [] attr = "no_global_tags" -> [@[i] EXCEPT !.no_global_tags = flag]
                     [] attr = "no_track_tags" -> [@[i] EXCEPT !.no_track_tags = flag]
                     [] OTHER -> [@[i] EXCEPT !.no_attachments = flag]]],
           <<>>, <<>>)

\* ----------------------------------------------- SpecTrack: construction
\* The ids mkvmerge gives k tracks: increasing, from 0 when no track of the
\* file was left out of the report, with gaps when one was.
IdLists(k, n) ==
    { ids \in [1..k -> 0..n] : \A i \in 1..k : \A j \in 1..k : i < j => ids[i] < ids[j] }

\* The track lists a probe can report: ids 0, 1, ... in order.
TrackLists(n) ==
    UNION { { [i \in 1..k |-> ProbeEntry(i - 1, f[i][1], f[i][2])] :
                f \in [1..k -> TrackTypes \X PropsSet] } : k \in 0..n }

MoviePath == << <<"lib">>, <<"movie", "mp4">> >>

\* The variables of the other specifications, at rest
NoProbeLog == objs = <<>> /\ nobj = 0 /\ log = <<>>

probeVars == <<objs, nobj, log>>

mergeVars == <<heap, models, calls>>

NoRun ==
    /\ heap = <<>> /\ models = <<>> /\ calls = <<>>
    /\ dirs = {} /\ dry_run = FALSE /\ pc = "off" /\ subs_paths = <<>> /\ di = 0
    /\ gen = <<>> /\ pair = <<>> /\ raised = NoneVal
    /\ matched = <<>> /\ muxes = <<>> /\ trashed = <<>>

mainVars ==
    <<dirs, dry_run, pc, subs_paths, di, gen, pair, raised, matched, muxes, trashed, mergeVars>>

InitTrack ==
    /\ \E ts \in TrackLists(MaxTracks), sup \in BOOLEAN :
           disk = [p \in {MoviePath} |-> Json(sup, ts)]
    /\ target = MoviePath
    /\ built = <<>>
    /\ cmd = <<>>
    /\ nedits = 0
    /\ NoProbeLog
    /\ NoRun

\* mkv.MKVFile(target)
Construct ==
    /\ built = <<>>
    /\ built' = <<MKVFile_init(target, NoneVal, disk)>>
    /\ UNCHANGED <<disk, target, cmd, nedits, probeVars, mainVars>>

vars ==
    <<disk, built, target, cmd, nedits, objs, nobj, log,
      dirs, dry_run, pc, subs_paths, di, gen, pair, raised, matched, muxes, trashed,
      heap, models, calls>>

NextTrack == Construct

SpecTrack == InitTrack /\ [][NextTrack]_vars

\* C1: after MKVFile(path), every track's name, language, default flag and
\* forced flag equal what the probe reports in that entry's properties when
\* the property is present, and are None / False when it is absent.
C1_ProbeDefaultsKept ==
    (built # <<>> /\ built[1].exc = NoneVal) =>
        \A i \in 1..Len(built[1].self.tracks) :
            LET t == built[1].self.tracks[i]
                props == disk[target].tracks[i].properties
                has(k) == k \in DOMAIN props
            IN  /\ t.track_name = IF has("track_name") THEN props.track_name ELSE NoneVal
                /\ t.language = IF has("language") THEN props.language ELSE NoneVal
                /\ t.default_track = IF has("default_track") THEN props.default_track ELSE FALSE
                /\ t.forced_track = IF has("forced_track") THEN props.forced_track ELSE FALSE

\* MKVFile(path) on probes whose ids may have gaps: up to MaxTracks tracks
\* of any type, without properties.
InitIds ==
    /\ \E k \in 0..MaxTracks, sup \in BOOLEAN :
         \E types \in [1..k -> TrackTypes], ids \in IdLists(k, MaxTracks) :
           disk = [p \in {MoviePath} |->
                      Json(sup, [i \in 1..k |->
                                    ProbeEntry(ids[i], types[i],
                                               MkProps([q \in PropNames |-> FALSE],
                                                       "", "", FALSE, FALSE))])]
    /\ target = MoviePath
    /\ built = <<>>
    /\ cmd = <<>>
    /\ nedits = 0
    /\ NoProbeLog
    /\ NoRun

SpecIds == InitIds /\ [][NextTrack]_vars

Positional(entries) == \A i \in 1..Len(entries) : entries[i].id = i - 1

\* The tracks of the MKVFile built are the entries of the probe, one by one.
Mirrors(tracks, entries) ==
    /\ Len(tracks) = Len(entries)
    /\ \A i \in 1..Len(entries) :
           /\ tracks[i].track_id = entries[i].id
           /\ 0 <= tracks[i].track_id
           /\ tracks[i].track_id < Len(entries)
           /\ tracks[i].track_type = entries[i].type
           /\ tracks[i].track_codec = entries[i].codec

\* C11, as stated: for every supported file MKVFile(path) gives a model whose
\* tracks mirror the probe: as many, in its order, the i-th with the id, the
\* type and the codec of the i-th entry and an id below the number of tracks.
C11_EverySupportedFile ==
    (built # <<>> /\ disk[target].supported) =>
        /\ built[1].exc = NoneVal
        /\ Mirrors(built[1].self.tracks, disk[target].tracks)

\* C11, amended: MKVFile(path) of a supported file returns exactly when the
\* probe numbers the tracks 0, 1, ... without a gap, and then its tracks
\* mirror the probe; with a gap in the ids it raises IndexError.
C11_TracksMirrorProbe ==
    (built # <<>> /\ disk[target].supported) =>
        IF Positional(disk[target].tracks)
        THEN /\ built[1].exc = NoneVal
             /\ Mirrors(built[1].self.tracks, disk[target].tracks)
        ELSE built[1].exc = "IndexError"

C11_Witness ==
    /\ built # <<>> /\ built[1].exc = NoneVal
    /\ Len(built[1].self.tracks) = 2
    /\ built[1].self.tracks[1].track_type # built[1].self.tracks[2].track_type
    /\ built[1].self.tracks[2].track_id = 1

\* ------------------------------------------ SpecCmd: authoring a command
MaxEdits == 2

SubPath == << <<"lib">>, <<"Subs">>, <<"2_English", "srt">> >>

TagsPath == << <<"lib">>, <<"tags", "xml">> >>

MissingPath == << <<"lib">>, <<"missing", "mkv">> >>

OutputPaths == { << <<"lib">>, <<"movie", "mkv">> >>, MoviePath, << <<"lib">>, <<"movie">> >> }

CmdDisk ==
    [p \in {MoviePath, SubPath, TagsPath} |->
        IF p = MoviePath
        THEN Json(TRUE, <<ProbeEntry(0, "video", MkProps([k \in PropNames |-> FALSE], "", "", FALSE, FALSE)),
                          ProbeEntry(1, "audio", MkProps([k \in PropNames |-> TRUE], "Main", "fre", TRUE, FALSE))>>)
        ELSE IF p = SubPath
        THEN Json(TRUE, <<ProbeEntry(0, "subtitles", MkProps([k \in PropNames |-> FALSE], "", "", FALSE, FALSE))>>)
        ELSE Json(FALSE, <<>>)]

\* The keyword arguments a caller gives MKVTrack(...)
Overrides ==
    { NoOverrides,
      [NoOverrides EXCEPT !.track_name = "Commentary"],
      [NoOverrides EXCEPT !.language = "dut"],
      [NoOverrides EXCEPT !.language = "xx"],
      [NoOverrides EXCEPT !.default_track = TRUE],
      [NoOverrides EXCEPT !.forced_track = TRUE],
      [track_name |-> "Commentary", language |-> "eng",
       default_track |-> TRUE, forced_track |-> TRUE] }

InitCmd ==
    /\ disk = CmdDisk
    /\ target = MoviePath
    /\ built = <<>>
    /\ cmd = <<>>
    /\ nedits = 0
    /\ NoProbeLog
    /\ NoRun

\* A call on the model: the object is replaced when the call returns, and is
\* as it was when the call raises.
Edited(r) ==
    /\ built' = IF r.exc = NoneVal THEN <<[built[1] EXCEPT !.self = r.self]>> ELSE built
    /\ nedits' = nedits + 1
    /\ cmd' = <<>>
    /\ UNCHANGED <<disk, target, probeVars, mainVars>>

CanEdit == built # <<>> /\ built[1].exc = NoneVal /\ nedits < MaxEdits

\* mkv.MKVFile(target, title=title)
ConstructTitled(title) ==
    /\ built = <<>>
    /\ built' = <<MKVFile_init(target, title, disk)>>
    /\ UNCHANGED <<disk, target, cmd, nedits, probeVars, mainVars>>

\* model.add_track(path)
AddTrackPath(path) ==
    /\ CanEdit
    /\ Edited(add_track(built[1].self, path, disk))

\* model.add_track(MKVTrack(path, track_id=track_id, **o))
AddTrackObject(path, track_id, o) ==
    /\ CanEdit
    /\ Edited(add_track_then(built[1].self, MKVTrack_init(path, track_id, o, disk)))

\* model.add_file(path)
AddFilePath(path) ==
    /\ CanEdit
    /\ Edited(add_file_path(built[1].self, path, disk))

TrackEdited(i, r) ==
    Edited(IF r.exc = NoneVal
           THEN Return([built[1].self EXCEPT !.tracks[i] = r.self], <<>>, <<>>)
           ELSE Raise(r.exc, built[1].self, <<>>))

\* model.tracks[i].language = language
SetLanguage(i, language) ==
    /\ CanEdit
    /\ i \in 1..Len(built[1].self.tracks)
    /\ TrackEdited(i, set_language(built[1].self.tracks[i], language))

\* model.tracks[i].tags = path
SetTags(i, path) ==
    /\ CanEdit
    /\ i \in 1..Len(built[1].self.tracks)
    /\ TrackEdited(i, set_tags(built[1].self.tracks[i], path, disk))

\* model.ignore_chapters(flag) and its three siblings
Ignore(attr, flag) ==
    /\ CanEdit
    /\ Edited(ignore(built[1].self, attr, flag))

\* model.command(output_path)
Command(output_path) ==
    /\ built # <<>> /\ built[1].exc = NoneVal
    /\ cmd' = <<[output_path |-> output_path, r |-> command(built[1].self, output_path)]>>
    /\ UNCHANGED <<disk, target, built, nedits, probeVars, mainVars>>

NextCmd ==
    \/ \E title \in {NoneVal, "Film"} : ConstructTitled(title)
    \/ \E path \in {SubPath, MissingPath} : AddTrackPath(path)
    \/ \E path \in {MoviePath, SubPath}, track_id \in 0..MaxTracks, o \in Overrides :
           AddTrackObject(path, track_id, o)
    \/ \E path \in {SubPath, TagsPath} : AddFilePath(path)
    \/ \E i \in 1..(MaxTracks + MaxEdits), language \in {NoneVal, "eng", "english"} :
           SetLanguage(i, language)
    \/ \E i \in 1..(MaxTracks + MaxEdits), path \in {TagsPath, MissingPath} : SetTags(i, path)
    \/ \E attr \in {"no_chapters", "no_global_tags", "no_track_tags", "no_attachments"},
          flag \in BOOLEAN : Ignore(attr, flag)
    \/ \E output_path \in OutputPaths : Command(output_path)

SpecCmd == InitCmd /\ [][NextCmd]_vars

\* The reference serialization of one track: its option group, item by item.
RefId(track) == ToString(track.track_id)

RefFlag(option, track, flag) ==
    <<option, RefId(track) \o (IF flag THEN ":1" ELSE ":0")>>

RefCategory(track, category, include, exclude) ==
    IF track.track_type = category THEN <<include, RefId(track)>> ELSE <<exclude>>

RefGroup(track) ==
       (IF track.track_name = NoneVal THEN <<>>
        ELSE <<"--track-name", RefId(track) \o ":" \o track.track_name>>)
    \o (IF track.language = NoneVal THEN <<>>
        ELSE <<"--language", RefId(track) \o ":" \o track.language>>)
    \o (IF track.tags = <<>> THEN <<>>
        ELSE <<"--tags", RefId(track) \o ":" \o PathStr(track.tags[1])>>)
    \o RefFlag("--default-track", track, track.default_track)
    \o RefFlag("--forced-track", track, track.forced_track)
    \o RefCategory(track, "video", "-d", "-D")
    \o RefCategory(track, "audio", "-a", "-A")
    \o RefCategory(track, "subtitles", "-s", "-S")
    \o (IF track.no_chapters THEN <<"--no-chapters">> ELSE <<>>)
    \o (IF track.no_global_tags THEN <<"--no-global-tags">> ELSE <<>>)
    \o (IF track.no_track_tags THEN <<"--no-track-tags">> ELSE <<>>)
    \o (IF track.no_attachments THEN <<"--no-attachments">> ELSE <<>>)
    \o <<PathStr(track.file_path[1])>>

RECURSIVE RefGroups(_)
RefGroups(tracks) ==
    IF tracks = <<>> THEN <<>> ELSE RefGroup(Head(tracks)) \o RefGroups(Tail(tracks))

RefCommand(model, output_path) ==
       <<MkvmergePath, "-o", PathStr(output_path)>>
    \o (IF model.title = NoneVal THEN <<>> ELSE <<"--title", model.title>>)
    \o RefGroups(model.tracks)

HasMkvSuffix(path) ==
    Len(path[Len(path)]) > 1 /\ path[Len(path)][Len(path[Len(path)])] = "mkv"

\* C9: for every model and every output path with suffix .mkv, command returns
\* exactly the reference serialization (global prefix once, then one option
\* group per track in tracks order, each closed by the track's source file);
\* any other suffix raises ValueError and returns no command.
C9_CommandIsReference ==
    cmd # <<>> =>
        IF HasMkvSuffix(cmd[1].output_path)
        THEN /\ cmd[1].r.exc = NoneVal
             /\ cmd[1].r.val = RefCommand(built[1].self, cmd[1].output_path)
        ELSE /\ cmd[1].r.exc = "ValueError"
             /\ cmd[1].r.val = <<>>

\* A command was built for a model of three tracks or more, one of them with
\* a name, a language and a tag file set, and a title.
C9_Witness ==
    /\ cmd # <<>>
    /\ cmd[1].r.exc = NoneVal
    /\ built[1].self.title # NoneVal
    /\ Len(built[1].self.tracks) >= 3
    /\ \E i \in 1..Len(built[1].self.tracks) :
           /\ built[1].self.tracks[i].track_name # NoneVal
           /\ built[1].self.tracks[i].language # NoneVal
           /\ built[1].self.tracks[i].tags # <<>>
           /\ built[1].self.tracks[i].track_type = "subtitles"

\* ------------------------------------------------ SpecProbe: the probe cache
MaxObjs == 2

MaxLog == 4

BrokenPath == << <<"lib">>, <<"broken", "avi">> >>

GarbledPath == << <<"lib">>, <<"garbled", "mkv">> >>

ProbeDisk ==
    [p \in {MoviePath, SubPath, TagsPath, BrokenPath, GarbledPath} |->
        IF p \in DOMAIN CmdDisk THEN CmdDisk[p]
        ELSE IF p = BrokenPath THEN NoJson("exit")
        ELSE NoJson("garbage")]

ProbePaths == DOMAIN ProbeDisk \cup {MissingPath}

InitProbe ==
    /\ disk = ProbeDisk
    /\ target = MoviePath
    /\ built = <<>>
    /\ cmd = <<>>
    /\ nedits = 0
    /\ NoProbeLog
    /\ NoRun

\* The three fields of class MKV that make the cache of one object
CacheOf(o) ==
    [info_json_hash |-> o.info_json_hash, info_json |-> o.info_json,
     file_path |-> o.file_path]

\* The caches of the objects a constructor call left: the object itself and,
\* for an MKVFile, its tracks.
CachesOf(self) ==
    IF "tracks" \in DOMAIN self
    THEN <<CacheOf(self)>> \o [i \in 1..Len(self.tracks) |-> CacheOf(self.tracks[i])]
    ELSE <<CacheOf(self)>>

\* The number of objects a constructor call created, from the probes it made
Created(evs) ==
    1 + (IF evs = <<>> THEN 0
         ELSE CHOOSE m \in {evs[j].obj : j \in 1..Len(evs)} :
                  \A j \in 1..Len(evs) : evs[j].obj <= m)

\* A constructor call returned or raised r: its probes are logged under the
\* numbers of the objects it created, which stay alive when it returned.
Constructed(r) ==
    /\ log' = log \o [j \in 1..Len(r.evs) |-> [r.evs[j] EXCEPT !.obj = nobj + 1 + @]]
    /\ nobj' = nobj + Created(r.evs)
    /\ objs' = IF r.exc # NoneVal THEN objs
               ELSE [k \in DOMAIN objs \cup (nobj + 1)..(nobj + Len(CachesOf(r.self))) |->
                        IF k \in DOMAIN objs THEN objs[k] ELSE CachesOf(r.self)[k - nobj]]
    /\ UNCHANGED <<disk, target, built, cmd, nedits, mainVars>>

\* A method of the live object o returned or raised r.
Called(o, r) ==
    /\ log' = log \o [j \in 1..Len(r.evs) |-> [r.evs[j] EXCEPT !.obj = o]]
    /\ objs' = [objs EXCEPT ![o] = CacheOf(r.self)]
    /\ UNCHANGED <<nobj, disk, target, built, cmd, nedits, mainVars>>

\* mkv.MKV(path)
NewMKV(path) ==
    /\ nobj < MaxObjs
    /\ Constructed(MKV_init(path, disk))

\* mkv.MKVTrack(path, track_id=track_id)
NewMKVTrack(path, track_id) ==
    /\ nobj < MaxObjs
    /\ Constructed(MKVTrack_init(path, track_id, NoOverrides, disk))

\* mkv.MKVFile(path)
NewMKVFile(path) ==
    /\ nobj < MaxObjs
    /\ Constructed(MKVFile_init(path, NoneVal, disk))

\* o.info_json(file_path), file_path <<>> for no argument
CallInfoJson(o, file_path) ==
    /\ o \in DOMAIN objs
    /\ Len(log) < MaxLog
    /\ Called(o, info_json(objs[o], file_path, disk))

\* o.verify_supported(file_path)
CallVerifySupported(o, file_path) ==
    /\ o \in DOMAIN objs
    /\ Len(log) < MaxLog
    /\ Called(o, verify_supported(objs[o], file_path, disk))

NextProbe ==
    \/ \E path \in ProbePaths : NewMKV(path)
    \/ \E path \in ProbePaths, track_id \in 0..1 : NewMKVTrack(path, track_id)
    \/ \E path \in ProbePaths : NewMKVFile(path)
    \/ \E o \in 1..(MaxObjs + MaxTracks), path \in ProbePaths :
           \/ CallInfoJson(o, <<path>>)
           \/ CallInfoJson(o, <<>>)
           \/ CallVerifySupported(o, <<path>>)

SpecProbe == InitProbe /\ [][NextProbe]_vars

\* The successful probes before the j-th, of any object and of object o
OkBefore(j) == {i \in 1..(j - 1) : log[i].exc = NoneVal}

OkOfBefore(o, j) == {i \in OkBefore(j) : log[i].obj = o}

Latest(S) == CHOOSE i \in S : \A k \in S : k <= i

\* The j-th probe answers from the cache what the i-th probe returned.
CacheHit(i, j) ==
    /\ ~log[j].invoked
    /\ log[j].exc = NoneVal
    /\ log[j].val = log[i].val

\* The cache of every live object holds the result of its latest successful
\* probe under that probe's path, and nothing before its first.
CacheBelongsToKey ==
    \A o \in DOMAIN objs :
        IF OkOfBefore(o, Len(log) + 1) = {}
        THEN objs[o].info_json_hash = <<>> /\ objs[o].info_json = <<>>
        ELSE /\ objs[o].info_json_hash = <<log[Latest(OkOfBefore(o, Len(log) + 1))].path>>
             /\ objs[o].info_json = log[Latest(OkOfBefore(o, Len(log) + 1))].val
             /\ objs[o].info_json = <<disk[objs[o].info_json_hash[1]]>>

\* C8 as stated: in any sequence of probes, a probe of the path of the previous
\* successful probe returns the identical result without running mkvmerge -J
\* again, and the cached result always belongs to the cached key path.
C8_AnyProbeSequence ==
    /\ \A j \in 1..Len(log) :
           (OkBefore(j) # {} /\ log[Latest(OkBefore(j))].path = log[j].path)
               => CacheHit(Latest(OkBefore(j)), j)
    /\ CacheBelongsToKey

\* C8 amended: the cache is one slot per MKV object.  A probe through an
\* object of the path of that object's previous successful probe returns the
\* identical result without running mkvmerge -J again; a successful probe of
\* any other path runs it, returns that path's document and replaces the
\* slot; the cached result always belongs to the cached key path.
C8_PerObjectCache ==
    /\ \A j \in 1..Len(log) :
           IF OkOfBefore(log[j].obj, j) # {}
              /\ log[Latest(OkOfBefore(log[j].obj, j))].path = log[j].path
           THEN CacheHit(Latest(OkOfBefore(log[j].obj, j)), j)
           ELSE log[j].exc = NoneVal =>
                    (log[j].invoked /\ log[j].val = <<disk[log[j].path]>>)
    /\ CacheBelongsToKey

\* One object probed a path, probed it again from its cache, then probed
\* another path, which took the slot.
C8_Witness ==
    \E o \in DOMAIN objs : \E i, j, k \in 1..Len(log) :
        /\ i < j /\ j < k
        /\ log[i].obj = o /\ log[j].obj = o /\ log[k].obj = o
        /\ log[i].exc = NoneVal /\ log[i].invoked
        /\ log[j].path = log[i].path /\ ~log[j].invoked
        /\ log[k].path # log[i].path /\ log[k].exc = NoneVal /\ log[k].invoked
        /\ objs[o].info_json_hash = <<log[k].path>>

\* ---------------------------------------------------------------- main.py
MaxSubs == 2

Parent(path) == SubSeq(path, 1, Len(path) - 1)

Name(path) == path[Len(path)]

\* Path.stem: the name without its last suffix
Stem(name) == IF Len(name) > 1 THEN SubSeq(name, 1, Len(name) - 1) ELSE name

\* Path.with_suffix("." + ext)
with_suffix(path, ext) == Append(Parent(path), Append(Stem(Name(path)), ext))

\* The library: the input root holds one directory per show, each with files
\* of its own and a directory Subs.
LibPath == << <<"lib">> >>

ShowOrder == << <<"showA">>, <<"showB">> >>

SubsName == <<"Subs">>

ParentNames == { <<"S01E01", "mp4">>, <<"S01E02", "mkv">>, <<"S01E01", "srt">> }

SubNames ==
    { <<"2_English", "srt">>, <<"3_DUTCH", "srt">>, <<"4_French", "mks">>,
      <<"5_sdh", "srt">>, <<"notes", "txt">>, <<"broken", "avi">>, <<"cut", "mkv">> }

EpisodeNames == { <<"S01E01">>, <<"S01E02">> }

\* The order in which a directory listing returns the names it holds
NameOrder ==
    << <<"showA">>, <<"showB">>,
       <<"S01E01", "mkv">>, <<"S01E01", "mp4">>, <<"S01E01", "srt">>, <<"S01E02", "mkv">>,
       <<"Subs">>, <<"S01E01">>, <<"S01E02">>,
       <<"2_English", "srt">>, <<"3_DUTCH", "srt">>, <<"4_French", "mks">>,
       <<"5_sdh", "srt">>, <<"broken", "avi">>, <<"cut", "mkv">>, <<"notes", "txt">> >>

NoProps == MkProps([k \in PropNames |-> FALSE], "", "", FALSE, FALSE)

LanguageOnly(lang) ==
    MkProps([k \in PropNames |-> k = "language"], "", lang, FALSE, FALSE)

\* What mkvmerge -J answers for the file of each name of the library
ContentOf(name) ==
    CASE name \in { <<"S01E01", "mp4">>, <<"S01E02", "mkv">> } ->
            Json(TRUE, <<ProbeEntry(0, "video", NoProps),
                         ProbeEntry(1, "audio", LanguageOnly("eng"))>>)
      [] name = <<"4_French", "mks">> ->
            Json(TRUE, <<ProbeEntry(0, "subtitles", LanguageOnly("fre"))>>)
      [] name = <<"notes", "txt">> -> Json(FALSE, <<>>)
      [] name = <<"broken", "avi">> -> NoJson("exit")
      [] name = <<"cut", "mkv">> -> NoJson("garbage")
      [] OTHER -> Json(TRUE, <<ProbeEntry(0, "subtitles", NoProps)>>)

\* What one show directory holds: files beside Subs, files in Subs, and the
\* files of each subdirectory of Subs.
SubsetsUpTo(S, n) == {T \in SUBSET S : Cardinality(T) <= n}

EpisodeFiles == { {<<"2_English", "srt">>}, {<<"notes", "txt">>} }

ShowOptions ==
    { [parent |-> P, files |-> F, eps |-> <<>>] :
        P \in SUBSET ParentNames, F \in SubsetsUpTo(SubNames, MaxSubs) }
    \cup
    { [parent |-> P, files |-> {}, eps |-> e] :
        P \in SUBSET ParentNames,
        e \in UNION { [E -> EpisodeFiles] : E \in (SUBSET EpisodeNames) \ {{}} } }
    \cup
    { [parent |-> P, files |-> {<<"2_English", "srt">>},
       eps |-> [E \in {<<"S01E01">>} |-> {<<"2_English", "srt">>}]] :
        P \in SUBSET ParentNames }

\* What the second show holds: a flat Subs directory, with or without a video
\* beside it and a subtitle in it.
SiblingOptions ==
    { [parent |-> P, files |-> F, eps |-> <<>>] :
        P \in SUBSET { <<"S01E01", "mp4">> }, F \in SUBSET { <<"2_English", "srt">> } }

Libraries == { <<a, b>> : a \in ShowOptions, b \in SiblingOptions }

ShowPath(i) == Append(LibPath, ShowOrder[i])

FilesOfShow(i, o) ==
    { Append(ShowPath(i), n) : n \in o.parent }
    \cup { ShowPath(i) \o <<SubsName, n>> : n \in o.files }
    \cup UNION { { ShowPath(i) \o <<SubsName, e, n>> : n \in o.eps[e] } : e \in DOMAIN o.eps }

DirsOfShow(i, o) ==
    { ShowPath(i), Append(ShowPath(i), SubsName) }
    \cup { ShowPath(i) \o <<SubsName, e>> : e \in DOMAIN o.eps }

DiskOf(lib) ==
    [p \in UNION { FilesOfShow(i, lib[i]) : i \in DOMAIN lib } |-> ContentOf(Name(p))]

DirsOf(lib) == {LibPath} \cup UNION { DirsOfShow(i, lib[i]) : i \in DOMAIN lib }

\* Path.glob("*"): the entries of a directory, files and directories alike
glob(path, d, ds) ==
    LET names == SelectSeq(NameOrder, LAMBDA n : Append(path, n) \in DOMAIN d \cup ds)
    IN  [i \in 1..Len(names) |-> Append(path, names[i])]

\* Path.glob(f"{stem}.*"): the entries whose name is the stem, a dot and more
glob_stem(path, stem, d, ds) ==
    SelectSeq(glob(path, d, ds),
              LAMBDA q : /\ Len(Name(q)) > Len(stem)
                         /\ SubSeq(Name(q), 1, Len(stem)) = stem)

\* glob_for_subs(path): path.rglob("**/Subs/")
glob_for_subs(path, d, ds) ==
    SelectSeq([i \in 1..Len(ShowOrder) |-> path \o <<ShowOrder[i], SubsName>>],
              LAMBDA q : q \in DOMAIN d \cup ds)

\* subs_from_paths(paths), from the i-th path on, subs being the list so far
RECURSIVE subs_from_paths(_, _, _, _)
subs_from_paths_then(r, paths, i, subs, d) ==
    IF r.exc = "FileNotSupportedError" THEN subs_from_paths(paths, i + 1, subs, d)
    ELSE IF r.exc # NoneVal THEN Raise(r.exc, subs, <<>>)
    ELSE IF Len(r.self.tracks) # 1 THEN subs_from_paths(paths, i + 1, subs, d)
    ELSE IF ~contains_subtitles(r.self) THEN subs_from_paths(paths, i + 1, subs, d)
    ELSE subs_from_paths(paths, i + 1, Append(subs, r.self), d)

subs_from_paths(paths, i, subs, d) ==
    IF i > Len(paths) THEN Return(subs, subs, <<>>)
    ELSE IF paths[i] \notin DOMAIN d THEN subs_from_paths(paths, i + 1, subs, d)
    ELSE subs_from_paths_then(MKVFile_init(paths[i], NoneVal, d), paths, i, subs, d)

\* `video.contains_video`, as videos_from_paths reads it: the bound method
\* itself, not its result, and a method object is true.
contains_video_attribute(video) == TRUE

\* videos_from_paths(paths), from the i-th path on
RECURSIVE videos_from_paths(_, _, _, _)
videos_from_paths_then(r, paths, i, videos, d) ==
    IF r.exc = "FileNotSupportedError" THEN videos_from_paths(paths, i + 1, videos, d)
    ELSE IF r.exc # NoneVal THEN Raise(r.exc, videos, <<>>)
    ELSE IF ~contains_video_attribute(r.self)
    THEN videos_from_paths(paths, i + 1, videos, d)
    ELSE videos_from_paths(paths, i + 1, Append(videos, r.self), d)

videos_from_paths(paths, i, videos, d) ==
    IF i > Len(paths) THEN Return(videos, videos, <<>>)
    ELSE IF paths[i] \notin DOMAIN d THEN videos_from_paths(paths, i + 1, videos, d)
    ELSE videos_from_paths_then(MKVFile_init(paths[i], NoneVal, d), paths, i, videos, d)

\* What one step of match_subs_to_file comes to: an exception (with the
\* failure it stands for) or the pair it yields.
Outcome(e, reason, yielded) == [exc |-> e, reason |-> reason, pair |-> yielded]

\* search_videos without its check for more than one video
search_videos_FirstVideo(videos, subs) ==
    IF videos.exc # NoneVal THEN Outcome(videos.exc, "ProbeFailed", <<>>)
    ELSE IF Len(videos.val) = 0 THEN Outcome("FileNotFoundError", "NoVideo", <<>>)
    ELSE Outcome(NoneVal, NoneVal, <<[video |-> videos.val[1], subs |-> subs]>>)

\* The video half of one search: videos being videos_from_paths(...)
search_videos(videos, subs) ==
    IF videos.exc # NoneVal THEN Outcome(videos.exc, "ProbeFailed", <<>>)
    ELSE IF Len(videos.val) = 0 THEN Outcome("FileNotFoundError", "NoVideo", <<>>)
    ELSE IF Len(videos.val) > 1 THEN Outcome("ValueError", "AmbiguousVideo", <<>>)
    ELSE Outcome(NoneVal, NoneVal, <<[video |-> videos.val[1], subs |-> subs]>>)

\* One search: subs being subs_from_paths(...), video_paths the glob to scan
search(subs, video_paths, d) ==
    IF subs.exc # NoneVal THEN Outcome(subs.exc, "ProbeFailed", <<>>)
    ELSE IF Len(subs.val) = 0 THEN Outcome("FileNotFoundError", "NoSubtitles", <<>>)
    ELSE search_videos(videos_from_paths(video_paths, 1, <<>>, d), subs.val)

\* One next() of the generator match_subs_to_file(path): what it comes to,
\* the generator after it, the directory searched and the video glob of the
\* search.  The generator keeps sub_paths and the index of the entry to
\* search next.
Step(layout, out, g, scope, video_paths) ==
    [stop |-> FALSE, layout |-> layout, out |-> out, gen |-> g, scope |-> scope,
     video_paths |-> video_paths]

StopIteration(g) ==
    [stop |-> TRUE, layout |-> NoneVal, out |-> Outcome(NoneVal, NoneVal, <<>>), gen |-> g,
     scope |-> <<>>, video_paths |-> <<>>]

\* The body of `for sub_path in sub_paths` for the k-th entry
episode_next(path, entries, k, d, ds) ==
    Step("episode",
         search(subs_from_paths(glob(entries[k], d, ds), 1, <<>>, d),
                glob_stem(Parent(path), Stem(Name(entries[k])), d, ds), d),
         <<[entries |-> entries, k |-> k + 1]>>,
         entries[k],
         glob_stem(Parent(path), Stem(Name(entries[k])), d, ds))

\* The first next(): entries is list(path.glob("*")).
first_next(path, entries, d, ds) ==
    IF Len(entries) = 0
    THEN Step("empty", Outcome("FileNotFoundError", "EmptyDirectory", <<>>),
              <<>>, path, glob(Parent(path), d, ds))
    ELSE IF \A i \in 1..Len(entries) : entries[i] \in DOMAIN d
    THEN Step("flat",
              search(subs_from_paths(glob(path, d, ds), 1, <<>>, d),
                     glob(Parent(path), d, ds), d),
              <<[entries |-> entries, k |-> Len(entries) + 1]>>,
              path, glob(Parent(path), d, ds))
    ELSE IF \A i \in 1..Len(entries) : entries[i] \in ds
    THEN episode_next(path, entries, 1, d, ds)
    ELSE Step("mixed", Outcome("NotImplementedError", "UnsupportedLayout", <<>>),
              <<>>, path, glob(Parent(path), d, ds))

\* match_subs_to_file(path), resumed
match_subs_to_file(g, path, d, ds) ==
    IF g = <<>> THEN first_next(path, glob(path, d, ds), d, ds)
    ELSE IF g[1].k > Len(g[1].entries) THEN StopIteration(g)
    ELSE episode_next(path, g[1].entries, g[1].k, d, ds)

\* str.lower() and the `in` of main, on the names of the library
Lower(component) ==
    CASE component = "2_English" -> "2_english"
      [] component = "3_DUTCH" -> "3_dutch"
      [] component = "4_French" -> "4_french"
      [] OTHER -> component

Contains(marker, stem) ==
    \E i \in 1..Len(stem) :
        <<marker, Lower(stem[i])>> \in { <<"english", "2_english">>, <<"dutch", "3_dutch">> }

\* The language main gives a subtitle without one, NoneVal for `continue`
language_from_name(path) ==
    IF Contains("english", Stem(Name(path))) THEN "eng"
    ELSE IF Contains("dutch", Stem(Name(path))) THEN "dut"
    ELSE NoneVal

\* The loop `for sub in subs` of main, from the i-th subtitle on
RECURSIVE add_subs(_, _, _)
add_subs(video, subs, i) ==
    IF i > Len(subs) THEN video
    ELSE IF subs[i].tracks[1].language # NoneVal
    THEN add_subs(add_file(video, subs[i]).self, subs, i + 1)
    ELSE IF language_from_name(subs[i].file_path[1]) = NoneVal
    THEN add_subs(video, subs, i + 1)
    ELSE add_subs(add_file(video,
                           [subs[i] EXCEPT !.tracks[1] =
                               set_language(@, language_from_name(subs[i].file_path[1])).self]).self,
                  subs, i + 1)

\* The exit codes of mkvmerge: 0 success, 1 warnings, 2 error
ExitCodes == {0, 1, 2}

\* MKVFile.mux without its check of the exit code
mux_NeverFatal(built_command, returncode) ==
    IF built_command.exc # NoneVal THEN built_command
    ELSE Return(built_command.self, <<>>, <<>>)

\* MKVFile.mux(output_path), built being self.command(output_path) and
\* returncode the exit code of the subprocess
mux(built_command, returncode) ==
    IF built_command.exc # NoneVal THEN built_command
    ELSE IF returncode = 2 THEN Raise("SubprocessError", built_command.self, <<>>)
    ELSE Return(built_command.self, <<>>, <<>>)

\* The container mkvmerge writes for the tracks selected
OutputContent(tracks) ==
    Json(TRUE, [i \in 1..Len(tracks) |->
                   ProbeEntry(i - 1, tracks[i].track_type,
                              LanguageOnly(IF tracks[i].language = NoneVal THEN "und"
                                           ELSE tracks[i].language))])

WriteFile(d, path, content) ==
    [p \in DOMAIN d \cup {path} |-> IF p = path THEN content ELSE d[p]]

\* send2trash(path): the file, or the directory with all it holds, is gone.
Under(path, q) == Len(q) >= Len(path) /\ SubSeq(q, 1, Len(path)) = path

RemoveFiles(d, path) == [q \in {x \in DOMAIN d : ~Under(path, x)} |-> d[q]]

RemoveDirs(ds, path) == {q \in ds : ~Under(path, q)}

Paths(files) == [i \in 1..Len(files) |-> files[i].file_path[1]]

FilesAmong(paths, d) ==
    [q \in {paths[i] : i \in 1..Len(paths)} \cap DOMAIN d |-> d[q]]

Init ==
    /\ \E lib \in Libraries : disk = DiskOf(lib) /\ dirs = DirsOf(lib)
    /\ dry_run \in BOOLEAN
    /\ pc = "start"
    /\ subs_paths = <<>> /\ di = 0 /\ gen = <<>> /\ pair = <<>> /\ raised = NoneVal
    /\ matched = <<>> /\ muxes = <<>> /\ trashed = <<>>
    /\ target = LibPath /\ built = <<>> /\ cmd = <<>> /\ nedits = 0
    /\ heap = <<>> /\ models = <<>> /\ calls = <<>>
    /\ NoProbeLog

restVars == <<target, built, cmd, nedits, probeVars, mergeVars>>

\* main, line 105: the Subs directories under the input
Start ==
    /\ pc = "start"
    /\ subs_paths' = glob_for_subs(target, disk, dirs)
    /\ di' = 1
    /\ pc' = IF glob_for_subs(target, disk, dirs) = <<>> THEN "done" ELSE "match"
    /\ UNCHANGED <<disk, dirs, dry_run, gen, pair, raised, matched, muxes, trashed, restVars>>

\* The generator stepped to st: exhausted, raised, or yielded a pair.
Advance(st) ==
    IF st.stop
    THEN /\ pc' = "enddir"
         /\ UNCHANGED <<gen, pair, raised, matched>>
    ELSE /\ gen' = st.gen
         /\ matched' = Append(matched,
                [dir |-> subs_paths[di], layout |-> st.layout, scope |-> st.scope,
                 exc |-> st.out.exc, reason |-> st.out.reason,
                 pair |-> IF st.out.pair = <<>> THEN <<>>
                          ELSE <<[video |-> st.out.pair[1].video.file_path[1],
                                  subs |-> Paths(st.out.pair[1].subs)]>>,
                 subs_seen |-> FilesAmong(glob(st.scope, disk, dirs), disk),
                 videos_seen |-> FilesAmong(st.video_paths, disk)])
         /\ pair' = st.out.pair
         /\ raised' = st.out.exc
         /\ pc' = IF st.out.exc # NoneVal THEN "failed" ELSE "merge"

\* main, line 107: the next pair of match_subs_to_file(subs_path)
MatchNext ==
    /\ pc = "match"
    /\ Advance(match_subs_to_file(gen, subs_paths[di], disk, dirs))
    /\ UNCHANGED <<disk, dirs, dry_run, subs_paths, di, muxes, trashed, restVars>>

\* The pair was merged into video; mkvmerge was run (returncode) or, in a
\* dry run, was not (returncode -1); r is what video.mux came to.
Merged(video, output_path, returncode, r, wrote) ==
    /\ muxes' = Append(muxes,
           [dir |-> subs_paths[di], video |-> video.file_path[1],
            output |-> output_path, rc |-> returncode, exc |-> r.exc,
            subs |-> Paths(pair[1].subs),
            tracks |-> [i \in 1..Len(video.tracks) |->
                           [file_path |-> video.tracks[i].file_path[1],
                            track_id |-> video.tracks[i].track_id,
                            language |-> video.tracks[i].language]]])
    /\ disk' = IF wrote THEN WriteFile(disk, output_path, OutputContent(video.tracks))
               ELSE disk
    /\ pair' = IF r.exc # NoneVal THEN <<>> ELSE <<[pair[1] EXCEPT !.video = video]>>
    /\ raised' = r.exc
    /\ pc' = IF r.exc # NoneVal THEN "failed"
             ELSE IF dry_run THEN "match" ELSE "trashvideo"

\* main, lines 108-133: the language of each subtitle, add_file, and mux
Merge ==
    /\ pc = "merge"
    /\ \/ /\ dry_run
          /\ Merged(add_subs(pair[1].video, pair[1].subs, 1),
                    with_suffix(pair[1].video.file_path[1], "mkv"), -1,
                    Return(<<>>, <<>>, <<>>), FALSE)
       \/ /\ ~dry_run
          /\ \E returncode \in ExitCodes, partial \in BOOLEAN :
                /\ returncode # 2 => partial
                /\ Merged(add_subs(pair[1].video, pair[1].subs, 1),
                          with_suffix(pair[1].video.file_path[1], "mkv"), returncode,
                          mux(command(add_subs(pair[1].video, pair[1].subs, 1),
                                      with_suffix(pair[1].video.file_path[1], "mkv")),
                              returncode),
                          partial)
    /\ UNCHANGED <<dirs, dry_run, subs_paths, di, gen, matched, trashed, restVars>>

\* main, line 134: send2trash(video.file_path)
TrashVideo ==
    /\ pc = "trashvideo"
    /\ trashed' = Append(trashed, pair[1].video.file_path[1])
    /\ disk' = RemoveFiles(disk, pair[1].video.file_path[1])
    /\ pair' = <<>>
    /\ pc' = "match"
    /\ UNCHANGED <<dirs, dry_run, subs_paths, di, gen, raised, matched, muxes, restVars>>

\* main, lines 135-137: the end of one pass of `for subs_path in subs_paths`
EndDir ==
    /\ pc = "enddir"
    /\ IF dry_run
       THEN UNCHANGED <<disk, dirs, trashed>>
       ELSE /\ trashed' = Append(trashed, subs_paths[di])
            /\ disk' = RemoveFiles(disk, subs_paths[di])
            /\ dirs' = RemoveDirs(dirs, subs_paths[di])
    /\ di' = di + 1
    /\ gen' = <<>>
    /\ pc' = IF di = Len(subs_paths) THEN "done" ELSE "match"
    /\ UNCHANGED <<dry_run, subs_paths, pair, raised, matched, muxes, restVars>>

Next == Start \/ MatchNext \/ Merge \/ TrashVideo \/ EndDir

Spec == Init /\ [][Next]_vars

\* ------------------------------------------------- properties of a run
\* What a file is, by what mkvmerge -J answers for it
IsVideoFile(content) ==
    /\ content.kind = "json" /\ content.supported
    /\ \E i \in 1..Len(content.tracks) : content.tracks[i].type = "video"

IsSubtitleFile(content) ==
    /\ content.kind = "json" /\ content.supported
    /\ Len(content.tracks) = 1 /\ content.tracks[1].type = "subtitles"

ProbeFails(content) == content.kind # "json"

VideosOf(seen) == {q \in DOMAIN seen : IsVideoFile(seen[q])}

SubtitlesOf(seen) == {q \in DOMAIN seen : IsSubtitleFile(seen[q])}

FailingOf(seen) == {q \in DOMAIN seen : ProbeFails(seen[q])}

Range(seq) == {seq[i] : i \in 1..Len(seq)}

Searches == {j \in 1..Len(matched) : matched[j].layout \in {"flat", "episode"}}

\* C2: in the flat layout, N >= 1 valid subtitles and exactly one file with a
\* video track in the parent give one pair, of that video and all N
\* subtitles, whatever else the parent holds (no file of the scan failing
\* its probe).
C2_FlatPair ==
    \A j \in 1..Len(matched) :
        ( /\ matched[j].layout = "flat"
          /\ FailingOf(matched[j].subs_seen) = {}
          /\ FailingOf(matched[j].videos_seen) = {}
          /\ SubtitlesOf(matched[j].subs_seen) # {}
          /\ Cardinality(VideosOf(matched[j].videos_seen)) = 1 )
        => /\ matched[j].pair # <<>>
           /\ {matched[j].pair[1].video} = VideosOf(matched[j].videos_seen)
           /\ Range(matched[j].pair[1].subs) = SubtitlesOf(matched[j].subs_seen)

MatchingFailures ==
    {"EmptyDirectory", "NoSubtitles", "NoVideo", "AmbiguousVideo", "UnsupportedLayout"}

\* C3: a run that has ended, and in which the matching of one subtitle
\* directory failed, has matched every other subtitle directory too.
C3_SiblingsStillProcessed ==
    ( /\ pc \in {"done", "failed"}
      /\ \E j \in 1..Len(matched) : matched[j].reason \in MatchingFailures )
    => \A i \in 1..Len(subs_paths) :
           \E j \in 1..Len(matched) : matched[j].dir = subs_paths[i]

\* C4: a scan never aborts on a file whose probe fails, and the subtitles of
\* the pair it leads to are all the valid subtitles of the directory.
C4_ScanSkipsFailedProbes ==
    \A j \in Searches :
        /\ matched[j].reason # "ProbeFailed"
        /\ matched[j].pair # <<>> =>
               Range(matched[j].pair[1].subs) = SubtitlesOf(matched[j].subs_seen)

SubsDirs == Range(subs_paths)

\* C5: a video is sent to the trash only after a mux of it returned 0 or 1,
\* a subtitle directory only after at least one mux and with every mux of
\* its pairings having returned 0 or 1; after a mux that returned 2 the video
\* and the subtitle directory of that pairing are still there.
C5_DeleteOnlyAfterMux ==
    /\ \A i \in 1..Len(trashed) :
          IF trashed[i] \in SubsDirs
          THEN /\ \E j \in 1..Len(muxes) : muxes[j].dir = trashed[i]
               /\ \A j \in 1..Len(muxes) :
                      muxes[j].dir = trashed[i] => muxes[j].rc \in {0, 1}
          ELSE \E j \in 1..Len(muxes) :
                   muxes[j].video = trashed[i] /\ muxes[j].rc \in {0, 1}
    /\ \A j \in 1..Len(muxes) :
          muxes[j].rc = 2 =>
              /\ muxes[j].video \notin Range(trashed) /\ muxes[j].video \in DOMAIN disk
              /\ muxes[j].dir \notin Range(trashed) /\ muxes[j].dir \in dirs

C5_Witness ==
    /\ pc = "failed" /\ raised = "SubprocessError"
    /\ \E j \in 1..Len(muxes) : muxes[j].rc = 2
    /\ \E i \in 1..Len(trashed) : trashed[i] \in SubsDirs
    /\ \E i \in 1..Len(trashed) : trashed[i] \notin SubsDirs

StartsWith(name, prefix) ==
    Len(name) >= Len(prefix) /\ SubSeq(name, 1, Len(prefix)) = prefix

\* The video files beside dir whose name starts with the name of episode
EpisodeVideos(dir, episode) ==
    {q \in DOMAIN disk : /\ Parent(q) = Parent(dir)
                         /\ IsVideoFile(disk[q])
                         /\ StartsWith(Name(q), Name(episode))}

FilesUnder(dir) == [q \in {x \in DOMAIN disk : Parent(x) = dir} |-> disk[q]]

\* Every entry of dir is a directory with a valid subtitle, no file failing
\* its probe, and exactly one video of its name beside dir.
PerEpisode(dir) ==
    \A e \in Range(glob(dir, disk, dirs)) :
        /\ e \in dirs
        /\ SubtitlesOf(FilesUnder(e)) # {}
        /\ FailingOf(FilesUnder(e)) = {}
        /\ Cardinality(EpisodeVideos(dir, e)) = 1

\* C7: in the per-episode layout, the search of a subdirectory gives one
\* pair, of the one video of that episode and the subtitles of that
\* subdirectory.
C7_EpisodePairs ==
    ( /\ pc \in {"merge", "failed"}
      /\ matched # <<>>
      /\ matched[Len(matched)].layout = "episode"
      /\ PerEpisode(matched[Len(matched)].dir) )
    => /\ matched[Len(matched)].pair # <<>>
       /\ {matched[Len(matched)].pair[1].video} =
              EpisodeVideos(matched[Len(matched)].dir, matched[Len(matched)].scope)
       /\ Range(matched[Len(matched)].pair[1].subs) =
              SubtitlesOf(FilesUnder(matched[Len(matched)].scope))

TracksOf(merge, sub) ==
    {i \in 1..Len(merge.tracks) : merge.tracks[i].file_path = sub}

\* C10: of the subtitles of a pair, one whose probe reports a language is
\* among the tracks of the video with that language, one without is there
\* with the language of the marker in its name, and is left out only when no
\* marker matches.
C10_LanguageDefaulting ==
    \A j \in 1..Len(muxes) :
        \A sub \in Range(muxes[j].subs) \cap DOMAIN disk :
            IF "language" \in DOMAIN disk[sub].tracks[1].properties
            THEN \E i \in TracksOf(muxes[j], sub) :
                     muxes[j].tracks[i].language = disk[sub].tracks[1].properties.language
            ELSE IF language_from_name(sub) # NoneVal
            THEN \E i \in TracksOf(muxes[j], sub) :
                     muxes[j].tracks[i].language = language_from_name(sub)
            ELSE TracksOf(muxes[j], sub) = {}

\* C13: without dry-run, every subtitle file of a Subs directory that was
\* sent to the trash has a track among those of a video whose mux returned
\* 0 or 1.
C13_OnlyMergedSubtitlesDeleted ==
    ~dry_run =>
        \A i \in 1..Len(trashed) :
            \A j \in 1..Len(matched) :
                (trashed[i] \in SubsDirs /\ matched[j].dir = trashed[i]) =>
                    \A sub \in SubtitlesOf(matched[j].subs_seen) :
                        \E k \in 1..Len(muxes) :
                            /\ muxes[k].rc \in {0, 1}
                            /\ TracksOf(muxes[k], sub) # {}

\* C14: once the video of a pairing whose mux returned 0 or 1 is in the
\* trash, the output of that mux is still on disk, and is another path than
\* the video's.
C14_OutputSurvives ==
    \A k \in 1..Len(muxes) :
        (muxes[k].rc \in {0, 1} /\ muxes[k].video \in Range(trashed)) =>
            /\ muxes[k].output \in DOMAIN disk
            /\ muxes[k].output # muxes[k].video

\* ------------------------------------- SpecMerge: add_file, by reference
\* A Python list holds references: here every MKVTrack lives in heap and the
\* tracks of an MKVFile are positions in heap, so that two lists can hold one
\* and the same track.
MaxModels == 2

MaxMerges == 2

MaxRelabels == 1

MergePaths == {MoviePath, SubPath}

\* The references of n objects put on the heap h
Allocated(h, n) == [i \in 1..n |-> Len(h) + i]

Call(op, model, other, file_path, tracks) ==
    [op |-> op, model |-> model, other |-> other, file_path |-> file_path,
     tracks |-> tracks]

\* models.append(MKVFile(path)), r being MKVFile(path)
Constructed_then(r, path) ==
    /\ r.exc = NoneVal
    /\ heap' = heap \o r.self.tracks
    /\ models' = Append(models,
                        [r.self EXCEPT !.tracks = Allocated(heap, Len(r.self.tracks))])
    /\ calls' = Append(calls, Call("MKVFile", Len(models) + 1, 0, path,
                                   Allocated(heap, Len(r.self.tracks))))

NewModel(path) ==
    /\ Len(models) < MaxModels
    /\ Constructed_then(MKVFile_init(path, NoneVal, disk), path)
    /\ UNCHANGED <<disk, target, built, cmd, nedits, probeVars,
                   dirs, dry_run, pc, subs_paths, di, gen, pair, raised,
                   matched, muxes, trashed>>

Merges == {c \in 1..Len(calls) : calls[c].op = "add_file"}

\* models[a].add_file(models[b]): self.tracks is bound to a new list, the
\* elements of which are the objects of the two lists.
MergeModel(a, b) ==
    /\ Cardinality(Merges) < MaxMerges
    /\ a \in 1..Len(models) /\ b \in 1..Len(models) /\ a # b
    /\ models' = [models EXCEPT ![a] = add_file(models[a], models[b]).self]
    /\ calls' = Append(calls, Call("add_file", a, b, models[b].file_path[1],
                                   models[b].tracks))
    /\ UNCHANGED <<heap, disk, target, built, cmd, nedits, probeVars,
                   dirs, dry_run, pc, subs_paths, di, gen, pair, raised,
                   matched, muxes, trashed>>

\* models[a].add_file(path), r being MKVFile(path): its tracks are new objects
MergePath_then(a, r, path) ==
    /\ r.exc = NoneVal
    /\ heap' = heap \o r.self.tracks
    /\ models' = [models EXCEPT ![a] =
                     add_file(models[a],
                              [r.self EXCEPT !.tracks =
                                  Allocated(heap, Len(r.self.tracks))]).self]
    /\ calls' = Append(calls, Call("add_file", a, 0, path,
                                   Allocated(heap, Len(r.self.tracks))))

MergePath(a, path) ==
    /\ Cardinality(Merges) < MaxMerges
    /\ a \in 1..Len(models)
    /\ MergePath_then(a, MKVFile_init(path, NoneVal, disk), path)
    /\ UNCHANGED <<disk, target, built, cmd, nedits, probeVars,
                   dirs, dry_run, pc, subs_paths, di, gen, pair, raised,
                   matched, muxes, trashed>>

\* models[a].tracks[i].language = language
Relabel(a, i, language) ==
    /\ nedits < MaxRelabels
    /\ a \in 1..Len(models) /\ i \in 1..Len(models[a].tracks)
    /\ heap' = [heap EXCEPT ![models[a].tracks[i]] = set_language(@, language).self]
    /\ nedits' = nedits + 1
    /\ UNCHANGED <<models, calls, disk, target, built, cmd, probeVars,
                   dirs, dry_run, pc, subs_paths, di, gen, pair, raised,
                   matched, muxes, trashed>>

NextMerge ==
    \/ \E path \in MergePaths : NewModel(path)
    \/ \E a \in 1..Len(models), b \in 1..Len(models) : MergeModel(a, b)
    \/ \E a \in 1..Len(models) : MergePath(a, SubPath)
    \/ \E a \in 1..Len(models) : \E i \in 1..Len(models[a].tracks) : Relabel(a, i, "eng")

SpecMerge == InitCmd /\ [][NextMerge]_vars

\* The tracks the calls made on model k so far account for: those of its
\* constructor, then those of each add_file in the order of the calls
RECURSIVE TracksByCalls(_, _)
TracksByCalls(k, n) ==
    IF n = 0 THEN <<>>
    ELSE IF calls[n].model = k THEN TracksByCalls(k, n - 1) \o calls[n].tracks
    ELSE TracksByCalls(k, n - 1)

ConstructorOf(k) ==
    CHOOSE c \in 1..Len(calls) : calls[c].op = "MKVFile" /\ calls[c].model = k

\* C12: the tracks of a model are its own, in their order, then those of each
\* merged model in merge order; a merged track is the very object the merged
\* model holds, its file still the merged file; and a model that is merged
\* into another keeps its track list and its file path.
C12_AppendByReference ==
    /\ \A k \in 1..Len(models) :
          /\ models[k].tracks = TracksByCalls(k, Len(calls))
          /\ models[k].file_path = <<calls[ConstructorOf(k)].file_path>>
          /\ \A i \in 1..Len(calls[ConstructorOf(k)].tracks) :
                 heap[calls[ConstructorOf(k)].tracks[i]].file_path = models[k].file_path
    /\ \A c \in Merges :
          IF calls[c].other = 0
          THEN \A i \in 1..Len(calls[c].tracks) :
                   heap[calls[c].tracks[i]].file_path = <<calls[c].file_path>>
          ELSE /\ calls[c].tracks =
                      SubSeq(models[calls[c].other].tracks, 1, Len(calls[c].tracks))
               /\ models[calls[c].other].file_path = <<calls[c].file_path>>

C12_Witness ==
    \E c \in Merges, d \in Merges :
        /\ c < d /\ calls[c].model = calls[d].model
        /\ calls[c].other # 0 /\ calls[d].other = 0
        /\ heap[calls[c].tracks[1]].language = "eng"
        /\ Len(models[calls[c].model].tracks) >= 4

====
